---------------------------- MODULE Spec2Model ----------------------------
(***************************************************************************)
(* A model of the AI Fantasy Drawing Pad.                                  *)
(*                                                                         *)
(*   - the drawing surface (client/components/Canvas.tsx): the pointer     *)
(*     handlers startDrawing / draw / stopDrawing and the imperative       *)
(*     handle clearCanvas / getCanvasData;                                 *)
(*   - the App component (client/types.ts): handleClearCanvas,             *)
(*     handleGenerate and the result pane;                                 *)
(*   - the server (unnamed/part_000): the route table and the handler of   *)
(*     POST /api/generate.                                                 *)
(*                                                                         *)
(* React commits a state update before the next event is dispatched, so a  *)
(* handler and the re-render it schedules are one step: the imperative     *)
(* handle always closes over the current value of isCanvasEmpty.           *)
(***************************************************************************)
EXTENDS Integers, Sequences, FiniteSets, TLC

VARIABLES
    \* ---- Canvas.tsx
    contextRef,      \* contextRef.current is a rendering context (TRUE) or null
    isDrawing,       \* isDrawing.current
    isCanvasEmpty,   \* the isCanvasEmpty state
    canvasWidth,     \* canvas.width  (backing store)
    canvasHeight,    \* canvas.height (backing store)
    dpr,             \* window.devicePixelRatio || 1, a ratio [n, d]
    context,         \* the drawing state of the context: strokeStyle and
                     \* lineWidth (null without a context)
    path,            \* the current path of the context: where it started,
                     \* where it stands and its segments (null when empty)
    pixels,          \* the backing store: the segments that show, each with
                     \* the style it was painted with last
    \* ---- the props of the Canvas: state of its owner (types.ts, 81-82)
    color,
    lineWidth,
    \* ---- the fingers on the canvas, oldest first: event.touches
    touches,
    \* ---- what has happened to the surface (history, read by properties only)
    exported,        \* what the last getCanvasData() call returned
    target,          \* the targetWidth x targetHeight that call computed
    lastOp,          \* the kind of the last pointer event, or the handle method
                     \* called last
    penDown,         \* a stroke session is open: a pointer went down and has
                     \* not gone up, left or been cancelled since
    inkMoves,        \* a pointer-move arrived during an open stroke session
    cleared,         \* clearCanvas has been called
    sinceClear,      \* the segments that moves of a stroke in progress have
                     \* added to the path since the last clearCanvas
    \* ---- App (types.ts)
    isLoading,
    error,
    generatedImage,
    calls,           \* the generateFantasyImage calls made so far: the argument
                     \* and how the promise stands
    lastApp,         \* history: the last thing that happened to the App
    \* ---- server (part_000)
    inbox,           \* the HTTP requests received so far
    upstream,        \* the model.generateContent calls made so far
    responses        \* the HTTP responses sent so far

surfaceVars == <<contextRef, isDrawing, isCanvasEmpty, canvasWidth, canvasHeight, dpr, context, path, pixels>>
propVars == <<color, lineWidth>>
histVars == <<exported, target, lastOp, penDown, inkMoves, cleared, sinceClear>>
appVars == <<isLoading, error, generatedImage, calls, lastApp>>
relayVars == <<inbox, upstream, responses>>
vars == <<surfaceVars, propVars, touches, histVars, appVars, relayVars>>

\* null: where a string is expected, and where a structured value is
NULL == "null"
NoData == <<>>

-----------------------------------------------------------------------------
(* Bounds *)

\* the most generateFantasyImage calls one App run makes
MaxCalls == 2
\* the most HTTP requests the server receives in one run
MaxRequests == 2

\* the most fingers on the canvas at one time
MaxTouches == 2

\* where the canvas element lies in the viewport: getBoundingClientRect()
rect == [left |-> 8, top |-> 64]
\* where a pointer can be: two places over the canvas, in viewport
\* coordinates
Home == [clientX |-> 18, clientY |-> 74]
Away == [clientX |-> 48, clientY |-> 84]
ClientPoints == {Home, Away}
\* what the colour picker and the size slider (1..50) can be set to
Colors == {"#FFFFFF", "#FF0000"}
LineWidths == {5, 20}

\* displayed sizes (rect.width, rect.height) of the canvas element
RectSizes == {<<300, 300>>, <<1024, 1024>>, <<1025, 1024>>, <<1536, 601>>, <<333, 2047>>, <<2000, 2000>>, <<1, 4000>>}
\* device pixel ratios: 1, 2 and 1.5
Ratios == {[n |-> 1, d |-> 1], [n |-> 2, d |-> 1], [n |-> 3, d |-> 2]}

-----------------------------------------------------------------------------
(* Canvas.tsx *)

MAX_DIMENSION == 1024

\* Math.round(num / den) for num >= 0, den > 0: halves round up
Round(num, den) == (2 * num + den) \div (2 * den)

\* the mount effect: canvas.width = rect.width * dpr (an integer attribute:
\* the fraction is dropped)
BackingSize(rectSide, ratio) == (rectSide * ratio.n) \div ratio.d

\* TargetSize with the fraction dropped where the code rounds
TargetSize_Truncating(cw, ch, r) ==
    LET wn == cw * r.d
        hn == ch * r.d
        den == r.n
    IN  IF wn > MAX_DIMENSION * den \/ hn > MAX_DIMENSION * den
        THEN IF wn > hn
             THEN [width |-> <<MAX_DIMENSION, 1>>, height |-> <<(hn * MAX_DIMENSION) \div wn, 1>>]
             ELSE [width |-> <<(wn * MAX_DIMENSION) \div hn, 1>>, height |-> <<MAX_DIMENSION, 1>>]
        ELSE [width |-> <<wn, den>>, height |-> <<hn, den>>]

\* getCanvasData, lines 119-137: the target size for a backing store of
\* cw x ch under ratio r. width = cw / dpr = (cw * r.d) / r.n; a dimension
\* is kept as a fraction <<numerator, denominator>>.
TargetSize(cw, ch, r) ==
    LET wn == cw * r.d
        hn == ch * r.d
        den == r.n
    IN  IF wn > MAX_DIMENSION * den \/ hn > MAX_DIMENSION * den
        THEN IF wn > hn
             THEN [width |-> <<MAX_DIMENSION, 1>>, height |-> <<Round(hn * MAX_DIMENSION, wn), 1>>]
             ELSE [width |-> <<Round(wn * MAX_DIMENSION, hn), 1>>, height |-> <<MAX_DIMENSION, 1>>]
        ELSE [width |-> <<wn, den>>, height |-> <<hn, den>>]

\* lines 139-141: width and height of a canvas are integer attributes
PngSize(t) == [width |-> t.width[1] \div t.width[2], height |-> t.height[1] \div t.height[2]]

\* tempCanvas.toDataURL('image/png') as dataUrl.split(',') sees it: the header
\* and the payload, here the size of the encoded image. A canvas without
\* pixels gives "data:," whose payload is empty.
toDataURL(size) ==
    IF size.width = 0 \/ size.height = 0
    THEN <<"data:", [width |-> 0, height |-> 0]>>
    ELSE <<"data:image/png;base64", size>>

\* getCanvasData without the test of isCanvasEmpty
getCanvasData_IgnoresFlag(tempCtx) ==
    IF ~tempCtx THEN NoData
    ELSE toDataURL(PngSize(TargetSize(canvasWidth, canvasHeight, dpr)))

\* getCanvasData(), lines 115-151: null, or the data URL of the snapshot.
\* tempCtx: whether tempCanvas.getContext('2d') gave a context.
getCanvasData(tempCtx) ==
    IF isCanvasEmpty THEN NoData
    ELSE IF ~tempCtx THEN NoData
    ELSE toDataURL(PngSize(TargetSize(canvasWidth, canvasHeight, dpr)))

\* lines 40-51: the position of the event on the canvas. A mouse event has
\* clientX and clientY; a touch event has the list of the fingers down.
MouseEvents == {"mousedown", "mousemove", "mouseup", "mouseleave"}
TouchEvents == {"touchstart", "touchmove", "touchend", "touchcancel"}
EventTypes == MouseEvents \cup TouchEvents

getCoords(event) ==
    IF event.type \in MouseEvents
    THEN [x |-> event.clientX - rect.left, y |-> event.clientY - rect.top]
    ELSE IF Len(event.touches) > 0
    THEN [x |-> event.touches[1].clientX - rect.left, y |-> event.touches[1].clientY - rect.top]
    ELSE [x |-> 0, y |-> 0]

\* the path methods of the context. A path is null (no subpath) or the
\* start of its last subpath, its current point and its segments.
Segments(pth) == IF pth = NoData THEN {} ELSE pth.segs

moveTo(pth, p) == [start |-> p, last |-> p, segs |-> Segments(pth)]

lineTo(pth, p) ==
    IF pth = NoData
    THEN moveTo(pth, p)
    ELSE [start |-> pth.start, last |-> p, segs |-> pth.segs \cup {<<pth.last, p>>}]

closePath(pth) ==
    IF pth = NoData \/ pth.segs = {}
    THEN pth
    ELSE [start |-> pth.start, last |-> pth.start, segs |-> pth.segs \cup {<<pth.last, pth.start>>}]

\* context.stroke(): every segment of the current path is painted with the
\* style the context has now, over what the backing store showed there
stroke(px, pth, ctx) ==
    {ink \in px : ink.seg \notin Segments(pth)}
        \cup {[seg |-> sg, strokeStyle |-> ctx.strokeStyle, lineWidth |-> ctx.lineWidth] : sg \in Segments(pth)}

\* startDrawing without the test of contextRef.current
startDrawing_NoContextTest(event) ==
    /\ path' = moveTo(NoData, getCoords(event))
    /\ isDrawing' = TRUE
    /\ UNCHANGED <<contextRef, isCanvasEmpty, canvasWidth, canvasHeight, dpr, context, pixels>>

\* lines 53-60
startDrawing(event) ==
    IF ~contextRef
    THEN UNCHANGED surfaceVars
    ELSE /\ path' = moveTo(NoData, getCoords(event))
         /\ isDrawing' = TRUE
         /\ UNCHANGED <<contextRef, isCanvasEmpty, canvasWidth, canvasHeight, dpr, context, pixels>>

\* draw without the test of isDrawing.current
draw_Unguarded(event) ==
    IF ~contextRef
    THEN UNCHANGED surfaceVars
    ELSE /\ path' = lineTo(path, getCoords(event))
         /\ pixels' = stroke(pixels, path', context)
         /\ isCanvasEmpty' = FALSE
         /\ UNCHANGED <<contextRef, isDrawing, canvasWidth, canvasHeight, dpr, context>>

\* draw that extends the path before it tests isDrawing.current
draw_ExtendsPath(event) ==
    IF ~contextRef
    THEN UNCHANGED surfaceVars
    ELSE IF ~isDrawing
    THEN /\ path' = lineTo(path, getCoords(event))
         /\ UNCHANGED <<contextRef, isDrawing, isCanvasEmpty, canvasWidth, canvasHeight, dpr, context, pixels>>
    ELSE /\ path' = lineTo(path, getCoords(event))
         /\ pixels' = stroke(pixels, path', context)
         /\ isCanvasEmpty' = FALSE
         /\ UNCHANGED <<contextRef, isDrawing, canvasWidth, canvasHeight, dpr, context>>

\* lines 62-69
draw(event) ==
    IF ~isDrawing \/ ~contextRef
    THEN UNCHANGED surfaceVars
    ELSE /\ path' = lineTo(path, getCoords(event))
         /\ pixels' = stroke(pixels, path', context)
         /\ isCanvasEmpty' = FALSE
         /\ UNCHANGED <<contextRef, isDrawing, canvasWidth, canvasHeight, dpr, context>>

\* stopDrawing that strokes the path it has closed
stopDrawing_Strokes ==
    IF ~contextRef
    THEN UNCHANGED surfaceVars
    ELSE /\ path' = closePath(path)
         /\ pixels' = stroke(pixels, path', context)
         /\ isDrawing' = FALSE
         /\ UNCHANGED <<contextRef, isCanvasEmpty, canvasWidth, canvasHeight, dpr, context>>

\* lines 71-75
stopDrawing ==
    IF ~contextRef
    THEN UNCHANGED surfaceVars
    ELSE /\ path' = closePath(path)
         /\ isDrawing' = FALSE
         /\ UNCHANGED <<contextRef, isCanvasEmpty, canvasWidth, canvasHeight, dpr, context, pixels>>

\* clearCanvas without setIsCanvasEmpty(true)
clearCanvas_KeepsFlag ==
    IF contextRef
    THEN /\ pixels' = {}
         /\ UNCHANGED <<contextRef, isDrawing, isCanvasEmpty, canvasWidth, canvasHeight, dpr, context, path>>
    ELSE UNCHANGED surfaceVars

\* lines 105-114 (the canvas element is attached for as long as the
\* component is mounted). Under the scale of the mount effect the rectangle
\* of canvas.width / dpr by canvas.height / dpr is the whole backing store.
\* The current path is not touched.
clearCanvas ==
    IF contextRef
    THEN /\ pixels' = {}
         /\ isCanvasEmpty' = TRUE
         /\ UNCHANGED <<contextRef, isDrawing, canvasWidth, canvasHeight, dpr, context, path>>
    ELSE UNCHANGED surfaceVars

\* lines 33-38: the effect that runs when the props color or lineWidth change
styleEffect(newColor, newWidth) ==
    IF contextRef
    THEN /\ context' = [strokeStyle |-> newColor, lineWidth |-> newWidth]
         /\ UNCHANGED <<contextRef, isDrawing, isCanvasEmpty, canvasWidth, canvasHeight, dpr, path, pixels>>
    ELSE UNCHANGED surfaceVars

\* lines 81-89: the listeners attached to the canvas element
Listener(event) ==
    CASE event.type \in {"mousedown", "touchstart"} -> startDrawing(event)
      [] event.type \in {"mousemove", "touchmove"} -> draw(event)
      [] OTHER -> stopDrawing

\* the kind of pointer event: down, move, or up / leave / cancel
Kind(type) ==
    CASE type \in {"mousedown", "touchstart"} -> "down"
      [] type \in {"mousemove", "touchmove"} -> "move"
      [] OTHER -> "up"

\* the history of a pointer event of the given type, once its listener has
\* run
EventHistory(type) ==
    /\ lastOp' = Kind(type)
    /\ penDown' = (Kind(type) = "down" \/ (penDown /\ Kind(type) = "move"))
    /\ inkMoves' = (inkMoves \/ (penDown /\ Kind(type) = "move"))
    /\ sinceClear' = IF Kind(type) = "move" /\ isDrawing /\ contextRef /\ path # NoData
                     THEN sinceClear \cup {<<path.last, path'.last>>}
                     ELSE sinceClear
    /\ UNCHANGED <<exported, target, cleared>>

\* the history of a clearCanvas call
ClearHistory ==
    /\ lastOp' = "clearCanvas"
    /\ cleared' = TRUE
    /\ sinceClear' = {}
    /\ UNCHANGED <<exported, target, penDown, inkMoves>>

-----------------------------------------------------------------------------
(* The surface on its own: events from the browser, calls from an owner *)

\* the browser dispatches a pointer event to the canvas element
Dispatch(event) ==
    /\ Listener(event)
    /\ EventHistory(event.type)
    /\ UNCHANGED <<propVars, appVars, relayVars>>

\* a mouse event at the place at
Mouse(type, at) ==
    /\ Dispatch([type |-> type, clientX |-> at.clientX, clientY |-> at.clientY])
    /\ UNCHANGED touches

\* a finger comes down on the canvas at the place at
TouchStart(at) ==
    /\ Len(touches) < MaxTouches
    /\ touches' = Append(touches, at)
    /\ Dispatch([type |-> "touchstart", touches |-> touches'])

\* the finger i moves to the place at
TouchMove(i, at) ==
    /\ touches' = [touches EXCEPT ![i] = at]
    /\ Dispatch([type |-> "touchmove", touches |-> touches'])

\* the finger i is lifted (touchend) or taken away by the browser
\* (touchcancel)
TouchEnd(i, type) ==
    /\ touches' = SubSeq(touches, 1, i - 1) \o SubSeq(touches, i + 1, Len(touches))
    /\ Dispatch([type |-> type, touches |-> touches'])

\* the pointer events at the places ats
Pointer(ats) ==
    \/ \E type \in MouseEvents, at \in ats : Mouse(type, at)
    \/ \E at \in ats : TouchStart(at)
    \/ \E i \in 1..Len(touches), at \in ats : TouchMove(i, at)
    \/ \E i \in 1..Len(touches), type \in {"touchend", "touchcancel"} : TouchEnd(i, type)

\* the history of a change of style
StyleHistory ==
    /\ lastOp' = "style"
    /\ UNCHANGED <<exported, target, penDown, inkMoves, cleared, sinceClear>>

\* the owner renders the Canvas with a new color (types.ts, 41: setColor)
SetColor(newColor) ==
    /\ newColor # color
    /\ color' = newColor
    /\ styleEffect(newColor, lineWidth)
    /\ StyleHistory
    /\ UNCHANGED <<lineWidth, touches, appVars, relayVars>>

\* the owner renders the Canvas with a new lineWidth (types.ts, 54:
\* setLineWidth)
SetLineWidth(newWidth) ==
    /\ newWidth # lineWidth
    /\ lineWidth' = newWidth
    /\ styleEffect(color, newWidth)
    /\ StyleHistory
    /\ UNCHANGED <<color, touches, appVars, relayVars>>

\* the owner calls canvasRef.current.clearCanvas()
CallClear ==
    /\ clearCanvas
    /\ ClearHistory
    /\ UNCHANGED <<propVars, touches, appVars, relayVars>>

\* the history of a getCanvasData call
GetDataHistory(tempCtx) ==
    /\ exported' = getCanvasData(tempCtx)
    /\ target' = IF isCanvasEmpty THEN NoData ELSE TargetSize(canvasWidth, canvasHeight, dpr)
    /\ lastOp' = "getCanvasData"
    /\ UNCHANGED <<penDown, inkMoves, cleared, sinceClear>>

\* the owner calls canvasRef.current.getCanvasData()
CallGetData(tempCtx) ==
    /\ GetDataHistory(tempCtx)
    /\ UNCHANGED <<surfaceVars, propVars, touches, appVars, relayVars>>

\* types.ts, 81-82: the color and the lineWidth the App starts with
DefaultColor == "#FFFFFF"
DefaultLineWidth == 5

\* lines 14-38: the state once the mount effect and the style effect have run
InitSurface ==
    /\ contextRef \in BOOLEAN
    /\ isDrawing = FALSE
    /\ isCanvasEmpty = TRUE
    /\ dpr \in Ratios
    /\ \E size \in RectSizes :
          /\ canvasWidth = BackingSize(size[1], dpr)
          /\ canvasHeight = BackingSize(size[2], dpr)
    /\ color = DefaultColor
    /\ lineWidth = DefaultLineWidth
    /\ context = IF contextRef THEN [strokeStyle |-> color, lineWidth |-> lineWidth] ELSE NoData
    /\ path = NoData
    /\ pixels = {}
    /\ touches = <<>>
    /\ exported = NoData
    /\ target = NoData
    /\ lastOp = "mount"
    /\ penDown = FALSE
    /\ inkMoves = FALSE
    /\ cleared = FALSE
    /\ sinceClear = {}

InitAppIdle ==
    /\ isLoading = FALSE
    /\ error = NULL
    /\ generatedImage = NULL
    /\ calls = <<>>
    /\ lastApp = [op |-> "render", call |-> 0]

InitRelayIdle ==
    /\ inbox = <<>>
    /\ upstream = <<>>
    /\ responses = <<>>

SurfaceInit == InitSurface /\ InitAppIdle /\ InitRelayIdle

\* canvases of every size, the pointer staying where it is
SurfaceNext ==
    \/ Pointer({Home})
    \/ \E newColor \in Colors : SetColor(newColor)
    \/ \E newWidth \in LineWidths : SetLineWidth(newWidth)
    \/ CallClear
    \/ \E tempCtx \in BOOLEAN : CallGetData(tempCtx)

SpecSurface == SurfaceInit /\ [][SurfaceNext]_vars

\* one canvas, a mouse that moves between two places, an owner that changes
\* the color (a change of lineWidth runs the same effect)
InkInit ==
    /\ SurfaceInit
    /\ dpr = [n |-> 1, d |-> 1]
    /\ canvasWidth = 300

InkNext ==
    \/ \E type \in MouseEvents, at \in ClientPoints : Mouse(type, at)
    \/ \E newColor \in Colors : SetColor(newColor)
    \/ CallClear

SpecInk == InkInit /\ [][InkNext]_vars

\* one canvas, fingers that move between two places
TouchNext ==
    \/ \E at \in ClientPoints : TouchStart(at)
    \/ \E i \in 1..Len(touches), at \in ClientPoints : TouchMove(i, at)
    \/ \E i \in 1..Len(touches), type \in {"touchend", "touchcancel"} : TouchEnd(i, type)
    \/ CallClear

SpecTouch == InkInit /\ [][TouchNext]_vars

-----------------------------------------------------------------------------
(* App (client/types.ts) *)

EmptyCanvasMessage == "The canvas is empty. Draw something first!"
UnknownErrorMessage == "An unknown error occurred."
ImagePrefix == "data:image/png;base64,"

\* what generateFantasyImage resolves with
Outputs == {"X", "Y", ""}
\* what generateFantasyImage rejects with: an Error with a message, or a
\* value that is no Error
Faults == {[isError |-> TRUE, message |-> "quota exceeded"], [isError |-> TRUE, message |-> ""], [isError |-> FALSE, message |-> NULL]}

Pending == <<"pending">>
IsPending(i) == calls[i].promise = Pending

\* a string React renders as present: neither null nor empty
Truthy(str) == str # NULL /\ str # ""

\* lines 141-155: what the result pane shows
ResultPane ==
    IF isLoading THEN "spinner"
    ELSE IF Truthy(error) THEN "error"
    ELSE IF Truthy(generatedImage) THEN "image"
    ELSE "placeholder"

\* a toolbar whose controls are never disabled
ControlsDisabled_Never == FALSE

\* Toolbar, lines 43, 56, 63, 70: every control is disabled while loading
ControlsDisabled == isLoading

\* services/geminiService: called with the base64 payload, it returns a
\* promise that is pending until it resolves with a string or rejects
generateFantasyImage(base64Data) == [arg |-> base64Data, promise |-> Pending]

\* handleGenerate without setError(null)
handleGenerate_KeepsError(tempCtx) ==
    LET dataUrl == getCanvasData(tempCtx)
    IN  IF dataUrl = NoData
        THEN /\ error' = EmptyCanvasMessage
             /\ UNCHANGED <<isLoading, generatedImage, calls>>
        ELSE /\ isLoading' = TRUE
             /\ generatedImage' = NULL
             /\ calls' = Append(calls, generateFantasyImage(dataUrl[2]))
             /\ UNCHANGED error

\* handleGenerate without the return after the empty-canvas error
handleGenerate_SendsAnyway(tempCtx) ==
    LET dataUrl == getCanvasData(tempCtx)
    IN  /\ isLoading' = TRUE
        /\ error' = IF dataUrl = NoData THEN EmptyCanvasMessage ELSE NULL
        /\ generatedImage' = NULL
        /\ calls' = Append(calls, generateFantasyImage(IF dataUrl = NoData THEN NoData ELSE dataUrl[2]))

\* handleGenerate, lines 92-108: up to the await
handleGenerate(tempCtx) ==
    LET dataUrl == getCanvasData(tempCtx)
    IN  IF dataUrl = NoData
        THEN /\ error' = EmptyCanvasMessage
             /\ UNCHANGED <<isLoading, generatedImage, calls>>
        ELSE /\ isLoading' = TRUE
             /\ error' = NULL
             /\ generatedImage' = NULL
             /\ calls' = Append(calls, generateFantasyImage(dataUrl[2]))

\* handleGenerate, lines 108-109 and 113-115: the promise of call i resolved
handleGenerateResolved(i, imageUrl) ==
    /\ generatedImage' = ImagePrefix \o imageUrl
    /\ isLoading' = FALSE
    /\ calls' = [calls EXCEPT ![i].promise = <<"resolved", imageUrl>>]
    /\ UNCHANGED error

\* handleGenerateRejected without the finally block
handleGenerateRejected_StaysLoading(i, err) ==
    /\ error' = IF err.isError THEN err.message ELSE UnknownErrorMessage
    /\ calls' = [calls EXCEPT ![i].promise = <<"rejected", err>>]
    /\ UNCHANGED <<isLoading, generatedImage>>

\* handleGenerate, lines 110-115: the promise of call i rejected
handleGenerateRejected(i, err) ==
    /\ error' = IF err.isError THEN err.message ELSE UnknownErrorMessage
    /\ isLoading' = FALSE
    /\ calls' = [calls EXCEPT ![i].promise = <<"rejected", err>>]
    /\ UNCHANGED generatedImage

\* lines 88-90
handleClearCanvas == clearCanvas

\* the user clicks Generate (the button is disabled while loading): what it
\* does to the App and the surface
GenerateClicked(tempCtx) ==
    /\ ~ControlsDisabled
    /\ Len(calls) < MaxCalls
    /\ handleGenerate(tempCtx)
    /\ GetDataHistory(tempCtx)
    /\ lastApp' = [op |-> "generate", call |-> IF getCanvasData(tempCtx) = NoData THEN 0 ELSE Len(calls) + 1]
    /\ UNCHANGED <<surfaceVars, propVars, touches>>

\* the user clicks Generate; the server is not involved
ClickGenerate(tempCtx) ==
    /\ GenerateClicked(tempCtx)
    /\ UNCHANGED relayVars

\* the user clicks Clear (the button is disabled while loading)
ClickClear ==
    /\ ~ControlsDisabled
    /\ handleClearCanvas
    /\ ClearHistory
    /\ lastApp' = [op |-> "clear", call |-> 0]
    /\ UNCHANGED <<isLoading, error, generatedImage, calls, propVars, touches, relayVars>>

\* the generation call i succeeds
Resolve(i, imageUrl) ==
    /\ IsPending(i)
    /\ handleGenerateResolved(i, imageUrl)
    /\ lastApp' = [op |-> "resolved", call |-> i]
    /\ UNCHANGED <<surfaceVars, propVars, touches, histVars, relayVars>>

\* the generation call i fails
Reject(i, err) ==
    /\ IsPending(i)
    /\ handleGenerateRejected(i, err)
    /\ lastApp' = [op |-> "rejected", call |-> i]
    /\ UNCHANGED <<surfaceVars, propVars, touches, histVars, relayVars>>

\* the App is mounted on a square canvas or on a sliver of one, on a display
\* with a whole device pixel ratio
AppInit ==
    /\ InitSurface /\ InitAppIdle /\ InitRelayIdle
    /\ dpr.d = 1
    /\ canvasWidth \in {BackingSize(300, dpr), BackingSize(1, dpr)}

Settle ==
    \E i \in 1..Len(calls) :
        \/ \E imageUrl \in Outputs : Resolve(i, imageUrl)
        \/ \E err \in Faults : Reject(i, err)

\* (the pointer is a mouse: touch events run the same listeners)
AppNext ==
    \/ \E type \in MouseEvents : Mouse(type, Home)
    \/ ClickClear
    \/ \E tempCtx \in BOOLEAN : ClickGenerate(tempCtx)
    \/ Settle

SpecApp == AppInit /\ [][AppNext]_vars

-----------------------------------------------------------------------------
(* The server (unnamed/part_000) *)

\* the files under client/dist
StaticFiles == {"/main.js"}

ApiPath == "/api/generate"
IndexDocument == "index.html"

\* request bodies: a JSON object with or without a prompt, or text that
\* express.json() cannot parse. (app.get("*") is Express 4 routing, where
\* express.json() leaves req.body an object whenever it lets a request pass.)
Prompts == {"foo", "bar"}
UNDEFINED == "undefined"
Bodies == {[parses |-> TRUE, prompt |-> p] : p \in Prompts \cup {UNDEFINED}} \cup {[parses |-> FALSE, prompt |-> UNDEFINED]}
EmptyBody == [parses |-> TRUE, prompt |-> UNDEFINED]

\* the requests clients send
ApiRequests == {[method |-> "POST", path |-> ApiPath, body |-> b] : b \in Bodies}
PageRequests == {[method |-> m, path |-> p, body |-> EmptyBody] : m \in {"GET", "HEAD", "POST", "PUT"}, p \in {ApiPath, "/main.js", "/anything"}} \ ApiRequests
Requests == ApiRequests \cup PageRequests

\* what the model returns: text, or a response whose text() throws
Texts == {"once upon", "a dragon"}
ModelResults == {[text |-> t, blocked |-> NULL] : t \in Texts} \cup {[text |-> NULL, blocked |-> "Text not available"]}
\* the messages of the faults the model call raises
FaultMessages == {"quota exceeded"}

\* Route without app.get("*")
Route_NoFallback(req) ==
    IF ~req.body.parses THEN "bad request"
    ELSE IF req.method = "POST" /\ req.path = ApiPath THEN "generate"
    ELSE IF req.method \in {"GET", "HEAD"} /\ req.path \in StaticFiles THEN "static"
    ELSE "not found"

\* lines 9, 16, 30, 32: the middleware and routes in the order they are
\* registered; what an unmatched request falls through to is the framework's
\* final handler
Route(req) ==
    IF ~req.body.parses THEN "bad request"
    ELSE IF req.method = "POST" /\ req.path = ApiPath THEN "generate"
    ELSE IF req.method \in {"GET", "HEAD"} /\ req.path \in StaticFiles THEN "static"
    ELSE IF req.method \in {"GET", "HEAD"} THEN "fallback"
    ELSE "not found"

\* the response of every route but the API's
Serve(id, req) ==
    CASE Route(req) = "bad request" -> [req |-> id, status |-> 400, body |-> <<"error", "bad request">>]
      [] Route(req) = "static" -> [req |-> id, status |-> 200, body |-> <<"file", req.path>>]
      [] Route(req) = "fallback" -> [req |-> id, status |-> 200, body |-> <<"file", IndexDocument>>]
      [] OTHER -> [req |-> id, status |-> 404, body |-> <<"error", "not found">>]

\* generateStart with the model called only when a prompt is there
generateStart_SkipsMissingPrompt(id, req) ==
    IF req.body.prompt = UNDEFINED
    THEN <<>>
    ELSE <<[req |-> id, prompt |-> req.body.prompt, outcome |-> Pending]>>

\* lines 17-19: the handler up to the await; the calls to
\* model.generateContent it makes
generateStart(id, req) ==
    <<[req |-> id, prompt |-> req.body.prompt, outcome |-> Pending]>>

\* generateResolved answering on the response object of the latest request
generateResolved_SharedResponse(call, result) ==
    [req |-> upstream[Len(upstream)].req, status |-> 200, body |-> <<"output", result.text>>]

\* lines 19-23: the call resolved; result.response.text() may still throw
generateResolved(call, result) ==
    IF result.blocked = NULL
    THEN [req |-> call.req, status |-> 200, body |-> <<"output", result.text>>]
    ELSE [req |-> call.req, status |-> 500, body |-> <<"error", result.blocked>>]

\* generateRejected without status(500), the message sent as output
generateRejected_Ok(call, message) ==
    [req |-> call.req, status |-> 200, body |-> <<"output", message>>]

\* lines 21-23: the call raised a fault
generateRejected(call, message) ==
    [req |-> call.req, status |-> 500, body |-> <<"error", message>>]

\* a request arrives: what the server does with it
Received(req) ==
    /\ Len(inbox) < MaxRequests
    /\ inbox' = Append(inbox, req)
    /\ IF Route(req) = "generate"
       THEN /\ upstream' = upstream \o generateStart(Len(inbox) + 1, req)
            /\ UNCHANGED responses
       ELSE /\ responses' = Append(responses, Serve(Len(inbox) + 1, req))
            /\ UNCHANGED upstream

\* a request arrives from some client
Receive(req) ==
    /\ Received(req)
    /\ UNCHANGED <<surfaceVars, propVars, touches, histVars, appVars>>

\* the model answers call k
UpstreamResolve(k, result) ==
    /\ upstream[k].outcome = Pending
    /\ upstream' = [upstream EXCEPT ![k].outcome = <<"resolved", result>>]
    /\ responses' = Append(responses, generateResolved(upstream[k], result))
    /\ UNCHANGED <<inbox, surfaceVars, propVars, touches, histVars, appVars>>

\* the model call k raises a fault
UpstreamReject(k, message) ==
    /\ upstream[k].outcome = Pending
    /\ upstream' = [upstream EXCEPT ![k].outcome = <<"rejected", message>>]
    /\ responses' = Append(responses, generateRejected(upstream[k], message))
    /\ UNCHANGED <<inbox, surfaceVars, propVars, touches, histVars, appVars>>

UpstreamSettle ==
    \E k \in 1..Len(upstream) :
        \/ \E result \in ModelResults : UpstreamResolve(k, result)
        \/ \E message \in FaultMessages : UpstreamReject(k, message)

RelayInit == InitSurface /\ InitAppIdle /\ InitRelayIdle /\ contextRef /\ dpr.n = 1 /\ canvasWidth = 300

RelayNext ==
    \/ \E req \in Requests : Receive(req)
    \/ UpstreamSettle

SpecRelay == RelayInit /\ [][RelayNext]_vars

-----------------------------------------------------------------------------
(* The App and the server together: the generation call goes through the    *)
(* relay, which is the only way the two meet (services/geminiService)       *)

\* the request generateFantasyImage sends for a payload
GenerationRequest(base64Data) ==
    [method |-> "POST", path |-> ApiPath, body |-> [parses |-> TRUE, prompt |-> base64Data]]

\* the user clicks Generate and, if there is something to send, the request
\* reaches the server
ClickGenerateOnline(tempCtx) ==
    /\ GenerateClicked(tempCtx)
    /\ IF getCanvasData(tempCtx) = NoData
       THEN UNCHANGED relayVars
       ELSE Received(GenerationRequest(getCanvasData(tempCtx)[2]))

\* the response to the request of call i reaches the client: the promise
\* resolves with the output, or rejects with the error text
Deliver(i) ==
    \E j \in 1..Len(responses) :
        /\ responses[j].req = i
        /\ IF responses[j].status = 200
           THEN Resolve(i, responses[j].body[2])
           ELSE Reject(i, [isError |-> TRUE, message |-> responses[j].body[2]])

\* the request of call i is lost on the way
TransportFails(i) == Reject(i, [isError |-> TRUE, message |-> "Failed to fetch"])

\* the App is mounted on a canvas that has a context
OnlineInit == AppInit /\ contextRef /\ dpr.n = 1 /\ canvasWidth = 300

Delivery == \E i \in 1..Len(calls) : Deliver(i)

\* (the user draws with the mouse button held: releasing it changes nothing
\* the App reads)
OnlineNext ==
    \/ \E type \in {"mousedown", "mousemove"} : Mouse(type, Home)
    \/ ClickClear
    \/ \E tempCtx \in BOOLEAN : ClickGenerateOnline(tempCtx)
    \/ UpstreamSettle
    \/ Delivery
    \/ \E i \in 1..Len(calls) : TransportFails(i)

\* the model call completes in the end, and a response that has been sent
\* arrives
SpecOnline == OnlineInit /\ [][OnlineNext]_vars /\ WF_vars(UpstreamSettle) /\ WF_vars(Delivery)

-----------------------------------------------------------------------------
(* Properties of the surface *)

\* C1: on a surface with a rendering context, after any sequence of pointer
\* down / move / up events with no clearCanvas call, the has-ink flag is set
\* if and only if a move event arrived while a stroke session was open.
C1_InkIffActiveMove ==
    (contextRef /\ ~cleared) => (~isCanvasEmpty <=> inkMoves)

\* a stroke was drawn and ended, and a move arrived after it
C1_Witness ==
    /\ contextRef /\ ~cleared
    /\ inkMoves /\ ~penDown /\ lastOp = "move"
    /\ ~isCanvasEmpty

\* C2: right after clearCanvas, from whatever state it was called in, the
\* has-ink flag is false and getCanvasData returns null.
C2_ClearResets ==
    lastOp = "clearCanvas" =>
        /\ isCanvasEmpty
        /\ \A tempCtx \in BOOLEAN : getCanvasData(tempCtx) = NoData

\* clearCanvas called in the middle of a stroke that had put ink down
C2_Witness ==
    lastOp = "clearCanvas" /\ contextRef /\ inkMoves /\ penDown /\ isDrawing

\* t is the integer nearest to small * 1024 / large
IsNearest(t, small, large) ==
    LET diff == 2 * (t * large - small * 1024)
    IN  diff <= large /\ -diff <= large

\* the fraction q equals num / den
IsFraction(q, num, den) == q[1] * den = num * q[2]

\* C3: for a display-space size (w, h) = (canvas.width / dpr, canvas.height /
\* dpr), getCanvasData computes the target size (w, h) itself when neither side
\* exceeds 1024; otherwise the larger side becomes exactly 1024 and the smaller
\* side the integer nearest to its value scaled by the same ratio, so no side
\* exceeds 1024 (and a square larger than 1024 gives 1024 x 1024).
C3_TargetSize ==
    target # NoData =>
        LET wn == canvasWidth * dpr.d
            hn == canvasHeight * dpr.d
            den == dpr.n
            tw == target.width
            th == target.height
        IN  IF wn <= 1024 * den /\ hn <= 1024 * den
            THEN IsFraction(tw, wn, den) /\ IsFraction(th, hn, den)
            ELSE /\ tw[2] = 1 /\ th[2] = 1
                 /\ tw[1] <= 1024 /\ th[1] <= 1024
                 /\ wn >= hn => (tw[1] = 1024 /\ IsNearest(th[1], hn, wn))
                 /\ hn >= wn => (th[1] = 1024 /\ IsNearest(tw[1], wn, hn))

\* an export of a surface wider than 1024 and not square, scaled down, whose
\* smaller side was rounded up
C3_Witness ==
    /\ target # NoData /\ exported # NoData
    /\ canvasWidth * dpr.d > 1024 * dpr.n
    /\ canvasWidth > canvasHeight
    /\ target.width = <<1024, 1>>
    /\ target.height[1] * canvasWidth > canvasHeight * 1024
    /\ exported[2] = [width |-> 1024, height |-> target.height[1]]

-----------------------------------------------------------------------------
(* Properties of the server *)

ResponsesTo(id) == {j \in 1..Len(responses) : responses[j].req = id}
CallsFor(id) == {k \in 1..Len(upstream) : upstream[k].req = id}
IsApiRequest(req) == req.method = "POST" /\ req.path = "/api/generate"
\* the requests the handler of POST /api/generate has been invoked for
Handled == {id \in 1..Len(inbox) : IsApiRequest(inbox[id]) /\ inbox[id].body.parses}

\* C5: when the model call of a request raises a fault with message m, the
\* request gets exactly one response, 500 { error: m }, with no output field,
\* and no second model call is made for it.
C5_FaultGives500 ==
    \A k \in 1..Len(upstream) :
        upstream[k].outcome[1] = "rejected" =>
            /\ Cardinality(ResponsesTo(upstream[k].req)) = 1
            /\ \A j \in ResponsesTo(upstream[k].req) :
                  /\ responses[j].status = 500
                  /\ responses[j].body = <<"error", upstream[k].outcome[2]>>
            /\ CallsFor(upstream[k].req) = {k}

\* { "prompt": "foo" } met Error("quota exceeded")
C5_Witness ==
    \E k \in 1..Len(upstream) :
        /\ upstream[k].prompt = "foo"
        /\ upstream[k].outcome = <<"rejected", "quota exceeded">>
        /\ \E j \in ResponsesTo(upstream[k].req) : responses[j].status = 500

\* C6: every request the POST /api/generate handler runs for causes exactly
\* one call of the model, whatever its body holds and however it ends.
C6_OneCallPerRequest ==
    /\ \A id \in Handled : Cardinality(CallsFor(id)) = 1
    /\ \A k \in 1..Len(upstream) : upstream[k].req \in Handled

\* a request without a prompt and a request with one have both been answered
C6_Witness ==
    /\ \E id \in Handled : inbox[id].body.prompt = UNDEFINED /\ ResponsesTo(id) # {}
    /\ \E id \in Handled : \E j \in ResponsesTo(id) : responses[j].status = 200

\* the response the outcome of a request's own model call asks for
OwnResponse(k) ==
    LET o == upstream[k].outcome
    IN  IF o[1] = "rejected" THEN <<500, <<"error", o[2]>>>>
        ELSE IF o[2].blocked # NULL THEN <<500, <<"error", o[2].blocked>>>>
        ELSE <<200, <<"output", o[2].text>>>>

\* C7: with any number of requests outstanding and their model calls
\* completing in any order, the model is called with the request's own prompt
\* and each response is the one the request's own call outcome asks for; a
\* request is answered once, and only after its own call completed.
C7_RequestsIndependent ==
    /\ \A k \in 1..Len(upstream) : upstream[k].prompt = inbox[upstream[k].req].body.prompt
    /\ \A id \in Handled :
          \A k \in CallsFor(id) :
              IF upstream[k].outcome = Pending
              THEN ResponsesTo(id) = {}
              ELSE /\ Cardinality(ResponsesTo(id)) = 1
                   /\ \A j \in ResponsesTo(id) : <<responses[j].status, responses[j].body>> = OwnResponse(k)

\* two requests with different prompts were outstanding together; the second
\* was answered first, one with output and one with an error
C7_Witness ==
    /\ Len(upstream) >= 2 /\ Len(responses) >= 2
    /\ upstream[1].prompt # upstream[2].prompt
    /\ responses[1].req = upstream[2].req /\ responses[2].req = upstream[1].req
    /\ responses[1].status # responses[2].status

-----------------------------------------------------------------------------
(* Properties of the App *)

\* a Generate click on a surface without ink sets the error text, issues no
\* request and leaves the rest of the App as it was
C4_Step ==
    \A tempCtx \in BOOLEAN :
        (ClickGenerate(tempCtx) /\ isCanvasEmpty) =>
            /\ error' = "The canvas is empty. Draw something first!"
            /\ calls' = calls
            /\ ~isLoading /\ ~isLoading'
            /\ generatedImage' = generatedImage

\* once Generate was clicked and no request has ever been issued, the App is
\* in one and the same state, whether ink was never drawn or drawn and cleared
C4_Scenario ==
    (lastApp.op = "generate" /\ calls = <<>> /\ isCanvasEmpty) =>
        <<isLoading, error, generatedImage>> = <<FALSE, "The canvas is empty. Draw something first!", NULL>>

\* C4: whenever Generate is invoked while the surface has no ink (never drawn,
\* or cleared after the last ink) the error becomes the empty-canvas message,
\* no request is issued and isLoading stays false; draw-Clear-Generate ends in
\* the same App state as Generate on a surface never drawn on.
C4_EmptyCanvasGenerate == [][C4_Step]_vars /\ []C4_Scenario

\* the user drew, cleared and clicked Generate
C4_Witness ==
    /\ inkMoves /\ cleared /\ isCanvasEmpty /\ contextRef
    /\ lastOp = "getCanvasData"
    /\ lastApp.op = "generate" /\ calls = <<>>
    /\ error = "The canvas is empty. Draw something first!"

\* C8: when Generate was invoked with ink on the surface and the generation
\* call succeeded with output X, the App has isLoading false, error null
\* (whatever error an earlier Generate left) and generatedImage built from X,
\* and the result pane shows the image.
C8_SuccessShowsImage ==
    lastApp.op = "resolved" =>
        /\ isLoading = FALSE
        /\ error = NULL
        /\ generatedImage = "data:image/png;base64," \o calls[lastApp.call].promise[2]
        /\ ResultPane = "image"

\* a first Generate failed, a second one succeeded with "X"
C8_Witness ==
    /\ lastApp = [op |-> "resolved", call |-> 2]
    /\ calls[1].promise[1] = "rejected"
    /\ calls[2].promise = <<"resolved", "X">>
    /\ ~isCanvasEmpty

\* every Generate that issued a request leaves isLoading false in the end
C9_LoadingEnds == isLoading ~> ~isLoading

\* after a failed request the error text is set and the controls are enabled
\* again; with ink on the surface a new Generate issues a new request
C9_AfterFailure ==
    lastApp.op = "rejected" =>
        /\ ~isLoading /\ ~ControlsDisabled
        /\ error # NULL
        /\ calls[lastApp.call].promise[2].isError => error = calls[lastApp.call].promise[2].message
        /\ (~isCanvasEmpty /\ Len(calls) < MaxCalls /\ Len(inbox) < MaxRequests)
              => ENABLED (ClickGenerateOnline(TRUE) /\ Len(calls') = Len(calls) + 1)

\* the server answers every request it called the model for, whatever the
\* requests before it ended in
C9_ServerAnswers ==
    \A k \in 1..MaxRequests :
        (Len(upstream) >= k /\ upstream[k].outcome = Pending) ~> (Len(upstream) >= k /\ ResponsesTo(upstream[k].req) # {})

\* C9: provided the generation call settles, every Generate that issues a
\* request leaves isLoading false, on success and on failure; after a failure
\* the error text is set, the controls are enabled and a later Generate issues
\* a new request, which can succeed; the server goes on answering requests
\* after one ended in a 500.
C9_UsableAfterFailure == C9_LoadingEnds /\ []C9_AfterFailure /\ C9_ServerAnswers

\* the first request ended in a 500 and its error is what the first call
\* rejected with; the second request was answered with output, shown as image
C9_Witness ==
    /\ Len(calls) = 2 /\ Len(responses) = 2
    /\ responses[1].req = 1 /\ responses[1].status = 500
    /\ calls[1].promise = <<"rejected", [isError |-> TRUE, message |-> responses[1].body[2]]>>
    /\ responses[2].req = 2 /\ responses[2].status = 200
    /\ calls[2].promise[1] = "resolved"
    /\ ~isLoading /\ ResultPane = "image"

-----------------------------------------------------------------------------
(* The surface: export, multi-touch, style, missing context, clear *)

C11_Step ==
    (lastOp' = "getCanvasData" /\ isCanvasEmpty)
        => /\ exported' = NoData
           /\ UNCHANGED <<pixels, isCanvasEmpty, isDrawing, path, context, contextRef>>

\* C11: getCanvasData called while isCanvasEmpty is true returns null,
\* whether or not a temporary context could be had, and leaves the backing
\* store, isCanvasEmpty and isDrawing (and the path and the context) as they
\* were.
C11_EmptyExportIsNull == [][C11_Step]_vars

\* getCanvasData returned null on a surface that was cleared in the middle of
\* a stroke
C11_Witness ==
    /\ lastOp = "getCanvasData" /\ exported = NoData
    /\ isCanvasEmpty /\ isDrawing /\ cleared /\ pixels = {}

\* where on the canvas a finger is
FingerAt(finger) == getCoords([type |-> "touchmove", touches |-> <<finger>>])

\* a step in which a further finger comes down while the first one stays
FurtherFingerDown ==
    /\ touches # <<>>
    /\ Len(touches') = Len(touches) + 1

\* a step in which a further finger moves while the first one stays
FurtherFingerMoves ==
    /\ touches # <<>>
    /\ Len(touches') = Len(touches)
    /\ touches'[1] = touches[1]
    /\ touches' # touches

\* a step in which a further finger is lifted or cancelled while the first
\* one stays
FurtherFingerUp ==
    /\ Len(touches) > 1
    /\ Len(touches') = Len(touches) - 1
    /\ touches'[1] = touches[1]
    /\ touches' # Tail(touches)

C12_Step ==
    /\ (isDrawing /\ FurtherFingerDown)
          => isDrawing' /\ path' = path /\ pixels' = pixels
    /\ (isDrawing /\ FurtherFingerMoves)
          => /\ isDrawing'
             /\ \A ink \in pixels' \ pixels : \A i \in 2..Len(touches') :
                   FingerAt(touches'[i]) # FingerAt(touches'[1])
                      => ink.seg[2] # FingerAt(touches'[i])
    /\ (isDrawing /\ FurtherFingerUp)
          => isDrawing' /\ pixels' = pixels

\* C12: while the first finger draws, a further finger that comes down,
\* moves, or is lifted or cancelled starts no new path, adds no ink where it
\* is, and does not end the stroke: isDrawing stays true until the first
\* finger is lifted.
C12_OnlyFirstTouch == [][C12_Step]_vars

C13_Step ==
    \A ink \in pixels' \ pixels :
        /\ path # NoData /\ path' # NoData
        /\ ink.seg = <<path.last, path'.last>>
        /\ ink.strokeStyle = color /\ ink.lineWidth = lineWidth

\* C13: a change of color or lineWidth shows in the segments rendered after
\* it only: whatever a step paints is the segment that step adds to the
\* path, in the style set at that time, so no segment on the backing store
\* is painted again in a new style, a change between two moves of one
\* stroke included.
C13_StyleNotRetroactive == [][C13_Step]_vars

\* C14: without a rendering context every operation is a no-op: whatever
\* pointer events, style changes, clearCanvas and getCanvasData calls have
\* happened, isDrawing is false, isCanvasEmpty is true, nothing is on the
\* backing store and getCanvasData returns null; so isDrawing or ink implies
\* a context.
C14_NoContextNoOp ==
    /\ (isDrawing \/ ~isCanvasEmpty) => contextRef
    /\ ~contextRef =>
          /\ ~isDrawing /\ isCanvasEmpty
          /\ pixels = {} /\ path = NoData /\ context = NoData
          /\ exported = NoData
          /\ \A tempCtx \in BOOLEAN : getCanvasData(tempCtx) = NoData

\* a surface without a context after a stroke session with a move, a change
\* of color, a clearCanvas and a getCanvasData
C14_Witness ==
    /\ ~contextRef
    /\ inkMoves /\ cleared /\ color # DefaultColor
    /\ lastOp = "getCanvasData"

\* the segments that show on the backing store
Shown == {ink.seg : ink \in pixels}

C15_Step ==
    (lastOp' = "up" /\ contextRef)
        => /\ ~isDrawing'
           /\ isCanvasEmpty' = isCanvasEmpty
           /\ pixels' = pixels

\* C15: on a surface with a context a pointer up, leave or cancel sets
\* isDrawing false and leaves isCanvasEmpty and the backing store as they
\* were, whether a stroke was in progress or not.
C15_StopKeepsInk == [][C15_Step]_vars

\* a stroke has ended: the path is closed by a segment that is not shown
C15_Witness ==
    /\ lastOp = "up" /\ contextRef /\ ~isDrawing
    /\ ~isCanvasEmpty /\ pixels # {}
    /\ Segments(path) \ Shown # {}

C16_Step ==
    (lastOp' = "move" /\ ~isDrawing)
        => UNCHANGED <<pixels, path, isCanvasEmpty, isDrawing>>

\* C16: a pointer move while isDrawing is false changes nothing: not the
\* backing store, not the current path, not isCanvasEmpty, not isDrawing.
C16_IdleMoveNoEffect == [][C16_Step]_vars

\* the pointer has moved over a surface that shows ink, after the stroke ended
C16_Witness ==
    /\ lastOp = "move" /\ ~isDrawing /\ ~penDown
    /\ contextRef /\ pixels # {} /\ path # NoData

\* C18: what shows on the backing store are segments added to a path since
\* the last clearCanvas only, so a move that follows a clearCanvas in the
\* middle of a stroke does not bring back the segments of that stroke drawn
\* before the clear; and while isCanvasEmpty is true nothing shows.
C18_ClearedInkStaysGone ==
    /\ Shown \subseteq sinceClear
    /\ isCanvasEmpty => pixels = {}

-----------------------------------------------------------------------------
(* App: one request at a time *)

\* the generation calls that have not settled
PendingCalls == {i \in 1..Len(calls) : IsPending(i)}

C17_State ==
    /\ Cardinality(PendingCalls) <= 1
    /\ PendingCalls \subseteq {Len(calls)}
    /\ isLoading <=> PendingCalls # {}
    /\ isLoading => ControlsDisabled

C17_Step ==
    /\ isLoading =>
          /\ calls' # calls => lastApp'.op \in {"resolved", "rejected"}
          /\ lastApp' # lastApp => lastApp'.op \in {"resolved", "rejected"}
          /\ lastOp' \in {"clearCanvas", "getCanvasData"} => lastOp' = lastOp
          /\ cleared' = cleared
    /\ (lastApp' # lastApp /\ lastApp'.op \in {"resolved", "rejected"}) =>
          /\ PendingCalls = {lastApp'.call}
          /\ lastApp'.call = Len(calls)
          /\ ~isLoading'
    /\ (lastApp' # lastApp /\ lastApp'.op = "resolved") =>
          generatedImage' = ImagePrefix \o calls'[lastApp'.call].promise[2]

\* C17: at most one generation call of the App is pending at any time, and
\* it is the latest one; while isLoading is true the controls are disabled,
\* so no handleGenerate and no clearCanvas runs between the start of a
\* request and its completion; the response that arrives is that of the one
\* pending call and is what the App then shows.
C17_SingleRequest == []C17_State /\ [][C17_Step]_vars

\* the second request is pending, the first having settled, and the user
\* goes on drawing
C17_Witness ==
    /\ isLoading /\ Len(calls) = 2 /\ PendingCalls = {2}
    /\ lastOp = "move" /\ ~isCanvasEmpty

=============================================================================
